---- MODULE Spec2Model ----
(***************************************************************************)
(* A model of the pull parser of package sparse (sparse.go), of its        *)
(* escaping tables and Field.String, and of ASCIIReader (reader.go).       *)
(*                                                                         *)
(* Strings are sequences of code points (integers).  The model keeps to    *)
(* code points below 128, where a rune and its UTF-8 encoding in           *)
(* bytes.Buffer are the same single byte.  The source handed to Read is a  *)
(* finite sequence of items: a code point, or ERR where the source's       *)
(* ReadRune fails with an error other than io.EOF; past the last item the  *)
(* source reports io.EOF.  A failing ReadRune delivers rune 0, as          *)
(* strings.Reader, bufio.Reader, bytes.Buffer and ASCIIReader all do.      *)
(***************************************************************************)
EXTENDS Integers, Sequences, FiniteSets, TLC

VARIABLES
    input,                   \* the items of the source handed to Read
    pos,                     \* number of items of the source consumed
    readComments,            \* Parser.readComments
    keepSeqWhitespace,       \* Parser.keepSeqWhitespace
    keepTrailingWhitespace,  \* Parser.keepTrailingWhitespace
    depth,                   \* Parser.depth
    next,                    \* Parser.next
    buf,                     \* Parser.buf
    lastOp,                  \* the operation that produced this state
    piece,                   \* the Piece the last Read returned (Nil: none)
    err,                     \* the error the last Read returned
    calls,                   \* calls of the source made by the last operation
    start,                   \* pos when the last operation began
    from,                    \* Parser.next when the last operation began
    out,                     \* every Piece returned by Read since Reset
    parsed,                  \* what Parse returned: [pieces, err]
    configsGiven,            \* the configs of the last NewParser or Reset
    rune                     \* the rune the last ASCIIReader.ReadRune returned

vars == <<input, pos, readComments, keepSeqWhitespace, keepTrailingWhitespace,
          depth, next, buf, lastOp, piece, err, calls, start, from, out,
          parsed, configsGiven, rune>>

---------------------------------------------------------------------------
(* Code points the parser names. *)
NUL == 0
BS == 8
TAB == 9
LF == 10
VT == 11
FF == 12
CR == 13
SP == 32
BANG == 33
HASH == 35
CH0 == 48
SEMI == 59
BSL == 92
CHb == 98
CHf == 102
CHn == 110
CHr == 114
CHt == 116
CHv == 118
LBRACE == 123
RBRACE == 125

(* Letters with no meaning to the parser, for the documents explored. *)
Letters == [a |-> 97, c |-> 99, k |-> 107, w |-> 119]
CHa == Letters.a
CHc == Letters.c
CHk == Letters.k
CHw == Letters.w

(* The item of a source at which ReadRune returns an error other than EOF. *)
ERR == -1

(* Bounds of the explored inputs. *)
MaxLen == 3
MaxLines == 3
MaxVal == 4

---------------------------------------------------------------------------
(* Errors and pieces. *)
ErrNil == "nil"
EOF == "io.EOF"
ErrUnexpectedNodeLeave == "sparse: unexpected end of node"
ErrSource == "source error"

Nil == [kind |-> "nil", key |-> <<>>, value |-> <<>>, depth |-> 0]
Field(k, v) == [kind |-> "Field", key |-> k, value |-> v, depth |-> 0]
Comment(t) == [kind |-> "Comment", key |-> <<>>, value |-> t, depth |-> 0]
NodeEnter(k) == [kind |-> "NodeEnter", key |-> k, value |-> <<>>, depth |-> 0]
NodeLeave(d) == [kind |-> "NodeLeave", key |-> <<>>, value |-> <<>>, depth |-> d]

(* The values of Parser.next. *)
nilParser == [tag |-> "nil", resume |-> "nil", err |-> ErrNil]
readKeyFn == [tag |-> "readKey", resume |-> "nil", err |-> ErrNil]
eofReader == [tag |-> "eofReader", resume |-> "nil", err |-> ErrNil]
errReader(e) == [tag |-> "errReader", resume |-> "nil", err |-> e]
readCommentFn(nxt) == [tag |-> "readComment", resume |-> nxt.tag, err |-> ErrNil]

---------------------------------------------------------------------------
(* The source: rd = [pos, n], n counting the calls made on the source. *)
ReadRune(in, rd) ==
    IF rd.pos < Len(in)
    THEN IF in[rd.pos + 1] = ERR
         THEN [c |-> NUL, err |-> ErrSource,
               rd |-> [pos |-> rd.pos + 1, n |-> rd.n + 1]]
         ELSE [c |-> in[rd.pos + 1], err |-> ErrNil,
               rd |-> [pos |-> rd.pos + 1, n |-> rd.n + 1]]
    ELSE [c |-> NUL, err |-> EOF, rd |-> [pos |-> rd.pos, n |-> rd.n + 1]]

(* readUntil(r, '\n'): the bytes up to and including the delimiter, or the *)
(* bytes read before the source failed, with that error.                   *)
RECURSIVE readUntilFrom(_, _, _)
readUntilFrom(in, p, acc) ==
    IF p >= Len(in) THEN [seq |-> acc, err |-> EOF, pos |-> p]
    ELSE IF in[p + 1] = ERR THEN [seq |-> acc, err |-> ErrSource, pos |-> p + 1]
    ELSE IF in[p + 1] = LF
         THEN [seq |-> Append(acc, LF), err |-> ErrNil, pos |-> p + 1]
    ELSE readUntilFrom(in, p + 1, Append(acc, in[p + 1]))

readUntil(in, rd) ==
    LET r == readUntilFrom(in, rd.pos, <<>>)
    IN [seq |-> r.seq, err |-> r.err, rd |-> [pos |-> r.pos, n |-> rd.n + 1]]

---------------------------------------------------------------------------
(* unicode.IsSpace, on the code points below 128. *)
IsSpace(c) == c \in {TAB, LF, VT, FF, CR, SP}

isBlank(c) == c \in {SP, TAB, LF, CR}

RECURSIVE skipBlank(_, _)
skipBlank(in, rd) ==
    LET x == ReadRune(in, rd)
    IN IF isBlank(x.c) /\ x.err = ErrNil THEN skipBlank(in, x.rd) ELSE x

(* Mutant: the escape \v is not known. *)
decodeEscapeNoVT(c) ==
    CASE c = CHt -> TAB
      [] c = CHn -> LF
      [] c = CHr -> CR
      [] c = CHb -> BS
      [] c = CHf -> FF
      [] c = CH0 -> NUL
      [] OTHER -> c

decodeEscape(c) ==
    CASE c = CHt -> TAB
      [] c = CHn -> LF
      [] c = CHr -> CR
      [] c = CHb -> BS
      [] c = CHf -> FF
      [] c = CH0 -> NUL
      [] c = CHv -> VT
      [] OTHER -> c

RECURSIVE chompLen(_, _)
chompLen(b, n) ==
    IF n > 0 /\ ~(b[n] = LF \/ ~IsSpace(b[n])) THEN chompLen(b, n - 1) ELSE n

chompBuffer(b) == SubSeq(b, 1, chompLen(b, Len(b)))

RECURSIVE trimRightLen(_, _)
trimRightLen(b, n) ==
    IF n > 0 /\ b[n] \in {SP, LF, TAB, CR} THEN trimRightLen(b, n - 1) ELSE n

TrimRight(b) == SubSeq(b, 1, trimRightLen(b, Len(b)))

---------------------------------------------------------------------------
(* The parser p is [readComments, keepSeqWhitespace,                       *)
(* keepTrailingWhitespace, depth, buf]; a read function returns            *)
(* [next, piece, err] with the source rd and the parser's depth and buf    *)
(* as it leaves them.                                                      *)
result(nxt, pc, e, rd, d, b) ==
    [next |-> nxt, piece |-> pc, err |-> e, rd |-> rd, depth |-> d, buf |-> b]

(* Mutant: enter forgets to count the node. *)
enterNoCount(p, key, rd) ==
    result(readKeyFn, NodeEnter(key), ErrNil, rd, p.depth, p.buf)

enter(p, key, rd) ==
    result(readKeyFn, NodeEnter(key), ErrNil, rd, p.depth + 1, p.buf)

(* Mutant: a '}' at depth 0 reports the error and parsing goes on. *)
leaveNoPoison(p, rd) ==
    IF p.depth = 0
    THEN result(readKeyFn, Nil, ErrUnexpectedNodeLeave, rd, p.depth, p.buf)
    ELSE result(readKeyFn, NodeLeave(p.depth), ErrNil, rd, p.depth - 1, p.buf)

(* Mutant: NodeLeave carries the depth after the decrement. *)
leaveDepthAfter(p, rd) ==
    IF p.depth = 0
    THEN result(errReader(ErrUnexpectedNodeLeave), Nil, ErrUnexpectedNodeLeave,
                rd, p.depth, p.buf)
    ELSE result(readKeyFn, NodeLeave(p.depth - 1), ErrNil, rd, p.depth - 1,
                p.buf)

leave(p, rd) ==
    IF p.depth = 0
    THEN result(errReader(ErrUnexpectedNodeLeave), Nil, ErrUnexpectedNodeLeave,
                rd, p.depth, p.buf)
    ELSE result(readKeyFn, NodeLeave(p.depth), ErrNil, rd, p.depth - 1, p.buf)

(* Mutant: the comment reader returns at once, reading nothing. *)
readCommentReadsNothing(in, p, resume, rd) ==
    result(IF resume = "readKey" THEN readKeyFn ELSE nilParser,
           IF p.readComments THEN Comment(<<>>) ELSE Nil, ErrNil, rd, p.depth,
           p.buf)

(* Mutant: the comment keeps its line ending. *)
readCommentKeepsLF(in, p, resume, rd) ==
    LET r == readUntil(in, rd)
        nxt == IF r.err # ErrNil /\ r.err # EOF THEN errReader(r.err)
               ELSE IF resume = "readKey" THEN readKeyFn ELSE nilParser
        pc == IF p.readComments THEN Comment(r.seq) ELSE Nil
    IN result(nxt, pc, r.err, r.rd, p.depth, p.buf)

(* The function readComment(next) returns. *)
readComment(in, p, resume, rd) ==
    LET r == readUntil(in, rd)
        comment == IF r.err = ErrNil THEN SubSeq(r.seq, 1, Len(r.seq) - 1)
                   ELSE r.seq
        nxt == IF r.err # ErrNil /\ r.err # EOF THEN errReader(r.err)
               ELSE IF resume = "readKey" THEN readKeyFn ELSE nilParser
        pc == IF p.readComments THEN Comment(comment) ELSE Nil
    IN result(nxt, pc, r.err, r.rd, p.depth, p.buf)

(* A loop state st is [c, err, rd, escape, last, buf]. *)
(* Mutant: the key loop also stops at '{'. *)
keyDelimBrace(c) == c \in {SP, BANG, SEMI, TAB, LF, CR, HASH, LBRACE}

keyDelim(c) == c \in {SP, BANG, SEMI, TAB, LF, CR, HASH}

valueDelim(c) == c \in {LF, SEMI, HASH}

(* One pass of readKey's loop body, up to the label skipWrite. *)
keyPut(keep, st) ==
    IF st.c = CR THEN st
    ELSE IF ~st.escape /\ st.c = BSL THEN [st EXCEPT !.escape = TRUE]
    ELSE IF st.escape
         THEN LET b == IF st.c = LF /\ ~keep THEN chompBuffer(st.buf) ELSE st.buf
                  c == IF st.c = LF THEN LF ELSE decodeEscape(st.c)
              IN [st EXCEPT !.escape = FALSE, !.last = c, !.buf = Append(b, c)]
    ELSE IF ~keep /\ IsSpace(st.last) /\ IsSpace(st.c) THEN st
    ELSE [st EXCEPT !.last = st.c, !.buf = Append(st.buf, st.c)]

RECURSIVE keyLoop(_, _, _)
keyLoop(in, keep, st) ==
    IF ~(~st.escape /\ keyDelim(st.c)) /\ st.err = ErrNil
    THEN LET w == keyPut(keep, st)
             x == ReadRune(in, st.rd)
         IN keyLoop(in, keep, [w EXCEPT !.c = x.c, !.err = x.err, !.rd = x.rd])
    ELSE st

(* Mutant: an escaped newline joins the lines and is not written. *)
valuePutJoin(keep, st) ==
    IF st.c = CR THEN st
    ELSE IF ~st.escape /\ st.c = BSL THEN [st EXCEPT !.escape = TRUE]
    ELSE IF st.escape
         THEN IF st.c = LF
              THEN [st EXCEPT !.escape = FALSE,
                              !.buf = IF keep THEN st.buf ELSE chompBuffer(st.buf)]
              ELSE [st EXCEPT !.escape = FALSE, !.last = decodeEscape(st.c),
                              !.buf = Append(st.buf, decodeEscape(st.c))]
    ELSE IF ~keep /\ IsSpace(st.last) /\ IsSpace(st.c) THEN st
    ELSE [st EXCEPT !.last = st.c, !.buf = Append(st.buf, st.c)]

(* Mutant: the check for a run of whitespace is left out. *)
valuePutNoCompress(keep, st) ==
    IF st.c = CR THEN st
    ELSE IF ~st.escape /\ st.c = BSL THEN [st EXCEPT !.escape = TRUE]
    ELSE IF st.escape
         THEN LET b == IF st.c = LF /\ ~keep THEN chompBuffer(st.buf) ELSE st.buf
                  c == IF st.c = LF THEN LF ELSE decodeEscape(st.c)
              IN [st EXCEPT !.escape = FALSE, !.last = c, !.buf = Append(b, c)]
    ELSE [st EXCEPT !.last = st.c, !.buf = Append(st.buf, st.c)]

(* One pass of readValue's loop body, up to the label skipWrite. *)
valuePut(keep, st) ==
    IF st.c = CR THEN st
    ELSE IF ~st.escape /\ st.c = BSL THEN [st EXCEPT !.escape = TRUE]
    ELSE IF st.escape
         THEN LET b == IF st.c = LF /\ ~keep THEN chompBuffer(st.buf) ELSE st.buf
                  c == IF st.c = LF THEN LF ELSE decodeEscape(st.c)
              IN [st EXCEPT !.escape = FALSE, !.last = c, !.buf = Append(b, c)]
    ELSE IF ~keep /\ IsSpace(st.last) /\ IsSpace(st.c) THEN st
    ELSE [st EXCEPT !.last = st.c, !.buf = Append(st.buf, st.c)]

RECURSIVE valueLoop(_, _, _)
valueLoop(in, keep, st) ==
    IF ~(~st.escape /\ valueDelim(st.c)) /\ st.err = ErrNil
    THEN LET w == valuePut(keep, st)
             x == ReadRune(in, st.rd)
         IN valueLoop(in, keep, [w EXCEPT !.c = x.c, !.err = x.err, !.rd = x.rd])
    ELSE st

(* The next read function readValue picks once the value has ended. *)
valueNext(st) ==
    IF st.err = EOF THEN eofReader
    ELSE IF st.c = HASH THEN readCommentFn(readKeyFn)
    ELSE readKeyFn

(* Mutant: the value is trimmed whatever TrimWhitespace says. *)
valueStrAlwaysTrims(p, b) ==
    IF Len(b) > 0 THEN TrimRight(b) ELSE <<>>

(* The value readValue emits from the buffer. *)
valueStr(p, b) ==
    IF Len(b) > 0
    THEN IF ~p.keepTrailingWhitespace THEN TrimRight(b) ELSE b
    ELSE <<>>

readValue(in, p, rd, key) ==
    LET x == skipBlank(in, rd)
    IN IF x.err # ErrNil /\ x.err # EOF
       THEN result(errReader(x.err), Nil, x.err, x.rd, p.depth, p.buf)
       ELSE IF x.c = LBRACE THEN enter(p, key, x.rd)
       ELSE IF x.c = HASH
            THEN result(readCommentFn(readKeyFn), Field(key, <<>>), ErrNil,
                        x.rd, p.depth, p.buf)
       ELSE LET st == valueLoop(in, p.keepSeqWhitespace,
                          [c |-> x.c, err |-> x.err, rd |-> x.rd,
                           escape |-> FALSE, last |-> NUL, buf |-> p.buf])
            IN result(valueNext(st), Field(key, valueStr(p, st.buf)), st.err,
                      st.rd, p.depth, <<>>)

(* The next read function readKey picks for a key followed by '#'. *)
keyCommentNext == readCommentFn(nilParser)

readKey(in, p, rd) ==
    LET x == skipBlank(in, rd)
    IN IF x.err # ErrNil /\ x.err # EOF
       THEN result(eofReader, Nil, x.err, x.rd, p.depth, p.buf)
       ELSE IF x.c = RBRACE THEN leave(p, x.rd)
       ELSE IF x.c = LBRACE THEN enter(p, <<>>, x.rd)
       ELSE IF x.c = HASH
            THEN result(readCommentFn(readKeyFn), Nil, ErrNil, x.rd, p.depth, p.buf)
       ELSE LET st == keyLoop(in, p.keepSeqWhitespace,
                          [c |-> x.c, err |-> x.err, rd |-> x.rd,
                           escape |-> FALSE, last |-> NUL, buf |-> p.buf])
                key == st.buf
            IN IF Len(key) = 0 /\ st.err # ErrNil
               THEN IF st.err = EOF
                    THEN result(eofReader, Nil, st.err, st.rd, p.depth, <<>>)
                    ELSE result(errReader(st.err), Nil, st.err, st.rd, p.depth, <<>>)
               ELSE IF st.err = EOF
                    THEN result(eofReader, Field(key, <<>>), st.err, st.rd,
                                p.depth, <<>>)
               ELSE IF st.c = HASH
                    THEN result(keyCommentNext, Field(key, <<>>), st.err, st.rd,
                                p.depth, <<>>)
               ELSE IF st.c = BANG \/ st.c = SEMI
                    THEN result(readKeyFn, Field(key, <<>>), st.err, st.rd,
                                p.depth, <<>>)
               ELSE readValue(in, [p EXCEPT !.buf = <<>>], st.rd, key)

(* p.next.read(r) *)
read(in, p, nxt, rd) ==
    CASE nxt.tag = "readKey" -> readKey(in, p, rd)
      [] nxt.tag = "readComment" -> readComment(in, p, nxt.resume, rd)
      [] nxt.tag = "eofReader" -> result(eofReader, Nil, EOF, rd, p.depth, p.buf)
      [] nxt.tag = "errReader" -> result(nxt, Nil, nxt.err, rd, p.depth, p.buf)

RECURSIVE readLoop(_, _, _)
readLoop(in, p, r) ==
    IF r.next.tag # "nil" /\ r.piece = Nil /\ r.err = ErrNil
    THEN readLoop(in, p,
             read(in, [p EXCEPT !.depth = r.depth, !.buf = r.buf], r.next, r.rd))
    ELSE r

(* Parser.Read *)
Read(in, p, nxt, rd) ==
    readLoop(in, p,
        result(IF nxt.tag = "nil" THEN readKeyFn ELSE nxt, Nil, ErrNil, rd,
               p.depth, p.buf))

(* Parse: the result of driving Read on a parser of its own. *)
RECURSIVE parseLoop(_, _, _, _, _)
parseLoop(in, p, nxt, rd, pieces) ==
    LET r == Read(in, p, nxt, rd)
    IN IF r.err = ErrNil
       THEN parseLoop(in, [p EXCEPT !.depth = r.depth, !.buf = r.buf], r.next,
                      r.rd, Append(pieces, r.piece))
       ELSE [pieces |-> pieces, err |-> IF r.err = EOF THEN ErrNil ELSE r.err,
             rd |-> r.rd]

(* Configuration.apply for ReadComments, TrimWhitespace, CompressWhitespace. *)
apply(p, cfg) ==
    CASE cfg.opt = "ReadComments" -> [p EXCEPT !.readComments = cfg.val]
      [] cfg.opt = "TrimWhitespace" ->
             [p EXCEPT !.keepTrailingWhitespace = ~cfg.val]
      [] cfg.opt = "CompressWhitespace" ->
             [p EXCEPT !.keepSeqWhitespace = ~cfg.val]

RECURSIVE applyAll(_, _)
applyAll(p, configs) ==
    IF configs = <<>> THEN p
    ELSE applyAll(apply(p, Head(configs)), Tail(configs))

(* Mutant: a Parser that starts out keeping runs of whitespace. *)
zeroParserKeepsRuns ==
    [readComments |-> FALSE, keepSeqWhitespace |-> TRUE,
     keepTrailingWhitespace |-> FALSE, depth |-> 0, buf |-> <<>>]

(* The zero Parser, with the next read function beside it. *)
zeroParser ==
    [readComments |-> FALSE, keepSeqWhitespace |-> FALSE,
     keepTrailingWhitespace |-> FALSE, depth |-> 0, buf |-> <<>>]

(* Parser.Reset: the parser's fields, next being nil. *)
Reset(configs) == applyAll(zeroParser, configs)

Parse(in, rd, configs) == parseLoop(in, Reset(configs), nilParser, rd, <<>>)

---------------------------------------------------------------------------
(* strings.NewReplacer with one-character patterns: each character is       *)
(* replaced by its escape, or left as it is.                                *)
RECURSIVE Replace(_, _)
Replace(esc(_), s) ==
    IF s = <<>> THEN <<>> ELSE esc(Head(s)) \o Replace(esc, Tail(s))

valueEscape(c) ==
    CASE c = HASH -> <<BSL, HASH>>
      [] c = SEMI -> <<BSL, SEMI>>
      [] c = BS -> <<BSL, CHb>>
      [] c = FF -> <<BSL, CHf>>
      [] c = LF -> <<BSL, LF>>
      [] c = CR -> <<BSL, CHr>>
      [] c = VT -> <<BSL, CHv>>
      [] c = NUL -> <<BSL, CH0>>
      [] OTHER -> <<c>>

keyEscape(c) ==
    CASE c = SP -> <<BSL, SP>>
      [] c = HASH -> <<BSL, HASH>>
      [] c = SEMI -> <<BSL, SEMI>>
      [] c = BS -> <<BSL, CHb>>
      [] c = FF -> <<BSL, CHf>>
      [] c = LF -> <<BSL, CHn>>
      [] c = CR -> <<BSL, CHr>>
      [] c = TAB -> <<BSL, CHt>>
      [] c = VT -> <<BSL, CHv>>
      [] c = NUL -> <<BSL, CH0>>
      [] c = BANG -> <<BSL, BANG>>
      [] OTHER -> <<c>>

valueEscaper(s) == Replace(valueEscape, s)

keyEscaper(s) == Replace(keyEscape, s)

(* Field.String *)
FieldString(k, v) ==
    IF v = <<>> THEN keyEscaper(k) \o <<BANG>>
    ELSE keyEscaper(k) \o <<SP>> \o valueEscaper(v)

---------------------------------------------------------------------------
(* The sources explored. *)
RECURSIVE Flatten(_)
Flatten(ss) == IF ss = <<>> THEN <<>> ELSE Head(ss) \o Flatten(Tail(ss))

SeqsUpTo(S, n) == UNION {[1..k -> S] : k \in 0..n}

Alphabet == {CHa, SP, LF, LBRACE, RBRACE, HASH, SEMI, BSL, ERR}

AlphaInputs == SeqsUpTo(Alphabet, MaxLen)

(* Documents of whole lines: each brace is a token of its own. *)
Lines ==
    {<<LBRACE, LF>>, <<RBRACE, LF>>, <<CHa, SP, LBRACE, LF>>,
     <<CHa, SP, CHb, LF>>, <<CHa, BANG, LF>>}

LineInputs == {Flatten(ls) : ls \in SeqsUpTo(Lines, MaxLines)}

(* One field, its value drawn from the characters the value loop treats   *)
(* apart.                                                                  *)
ValueAlphabet == {CHa, SP, BSL, CHt, LF}

ValueInputs == {<<CHk, SP>> \o v : v \in SeqsUpTo(ValueAlphabet, MaxVal)}

NodeDoc == <<CHa, LBRACE, LF, SP, SP, CHb, SP, CHc, LF, RBRACE>>
SpacedNodeDoc == <<CHa, SP, LBRACE, LF, SP, SP, CHb, SP, CHc, LF, RBRACE>>
ContinuedDoc == <<CHk, SP, CHv, BSL, LF, SP, SP, CHw>>
KeyCommentDoc == <<CHk, HASH, CHc, LF>>
ValueCommentDoc == <<CHk, SP, CHv, HASH, CHc, LF, CHa, BANG>>
NestedDoc == <<LBRACE, LF, CHa, SP, LBRACE, LF, RBRACE, LF, RBRACE, LF>>

CrlfCommentDoc == <<HASH, CHc, CR, LF, CHa, BANG>>
EscapedBlankDoc == <<CHk, SP, CHa, SP, BSL, SP, SP, CHa>>
BlankRunDoc == <<CHk, SP, CHa, SP, TAB, SP, CHa, LF>>

Scenarios ==
    {NodeDoc, SpacedNodeDoc, ContinuedDoc, KeyCommentDoc, ValueCommentDoc,
     NestedDoc, CrlfCommentDoc, EscapedBlankDoc, BlankRunDoc}

(* The texts Field.String writes for a key of one character the key table  *)
(* escapes and a value of up to two characters the value table escapes.     *)
KeyEscaped == {SP, HASH, SEMI, BS, FF, LF, CR, TAB, VT, NUL, BANG}

ValueEscaped == {HASH, SEMI, BS, FF, LF, CR, VT, NUL}

RoundTripKeys == {<<c>> : c \in KeyEscaped}

RoundTripValues ==
    {<<>>} \cup {<<c>> : c \in ValueEscaped}
        \cup {<<c, d>> : c \in ValueEscaped, d \in ValueEscaped}

RoundTrips ==
    {[text |-> FieldString(k, v), key |-> k, value |-> v] :
         k \in RoundTripKeys, v \in RoundTripValues}

RoundTripInputs == {rt.text : rt \in RoundTrips}

(* A backslash and one character inside a key and inside a value. *)
EscapeChars ==
    {CHt, CHn, CHr, CHb, CHf, CH0, CHv, CHa, SP, BANG, SEMI, HASH, BSL, LBRACE,
     RBRACE, TAB, LF, CR}

KeyEscapeDoc(c) == <<CHa, BSL, c, CHt, CHa, BANG>>

ValueEscapeDoc(c) == <<CHk, SP, CHa, BSL, c, CHt, CHa, LF>>

EscapeInputs ==
    {KeyEscapeDoc(c) : c \in EscapeChars}
        \cup {ValueEscapeDoc(c) : c \in EscapeChars}

Inputs ==
    AlphaInputs \cup LineInputs \cup ValueInputs \cup Scenarios
        \cup RoundTripInputs \cup EscapeInputs

(* The Configuration lists handed to NewParser and Reset: each option is  *)
(* either absent or configsGiven the value that differs from the zero Parser's.   *)
optList(name, val, given) ==
    IF given THEN <<[opt |-> name, val |-> val]>> ELSE <<>>

ConfigLists ==
    {optList("ReadComments", TRUE, rc) \o optList("TrimWhitespace", FALSE, tw)
         \o optList("CompressWhitespace", FALSE, cw) : rc, tw, cw \in BOOLEAN}

(* The lists handed to Reset on a parser in use: none of the options, one  *)
(* of them, all of them.                                                    *)
ResetLists ==
    {<<>>, optList("ReadComments", TRUE, TRUE),
     optList("ReadComments", TRUE, TRUE) \o optList("TrimWhitespace", FALSE, TRUE)
         \o optList("CompressWhitespace", FALSE, TRUE)}

(* The list that sets all three options to the parser's present ones. *)
sameConfigs ==
    <<[opt |-> "ReadComments", val |-> readComments],
      [opt |-> "TrimWhitespace", val |-> ~keepTrailingWhitespace],
      [opt |-> "CompressWhitespace", val |-> ~keepSeqWhitespace]>>

NoParse == [pieces |-> <<>>, err |-> "none"]

parser ==
    [readComments |-> readComments, keepSeqWhitespace |-> keepSeqWhitespace,
     keepTrailingWhitespace |-> keepTrailingWhitespace, depth |-> depth,
     buf |-> buf]

---------------------------------------------------------------------------
(* NewParser(configs...), and a source not yet read. *)
Init ==
    /\ input \in Inputs
    /\ \E configs \in ConfigLists :
           LET p == Reset(configs)
           IN /\ configsGiven = configs
              /\ readComments = p.readComments
              /\ keepSeqWhitespace = p.keepSeqWhitespace
              /\ keepTrailingWhitespace = p.keepTrailingWhitespace
              /\ depth = p.depth
              /\ buf = p.buf
    /\ next = nilParser
    /\ pos = 0
    /\ lastOp = "Reset"
    /\ piece = Nil
    /\ err = ErrNil
    /\ calls = 0
    /\ start = 0
    /\ from = nilParser
    /\ out = <<>>
    /\ parsed = NoParse
    /\ rune = NUL

(* piece, err = p.Read(r) *)
DoRead ==
    \E r \in {Read(input, parser, next, [pos |-> pos, n |-> 0])} :
       /\ next' = r.next
       /\ depth' = r.depth
       /\ buf' = r.buf
       /\ pos' = r.rd.pos
       /\ piece' = r.piece
       /\ err' = r.err
       /\ calls' = r.rd.n
       /\ start' = pos
       /\ from' = next
       /\ out' = IF r.piece = Nil THEN out ELSE Append(out, r.piece)
       /\ lastOp' = "Read"
       /\ UNCHANGED <<input, readComments, keepSeqWhitespace,
                      keepTrailingWhitespace, parsed, configsGiven, rune>>

(* Mutant: Reset leaves the depth as it is. *)
DoResetKeepsDepth ==
    \E configs \in ResetLists :
        LET p == Reset(configs)
        IN /\ configsGiven' = configs
           /\ readComments' = p.readComments
           /\ keepSeqWhitespace' = p.keepSeqWhitespace
           /\ keepTrailingWhitespace' = p.keepTrailingWhitespace
           /\ buf' = p.buf
           /\ next' = nilParser
           /\ pos' = 0
           /\ lastOp' = "Reset"
           /\ piece' = Nil
           /\ err' = ErrNil
           /\ calls' = 0
           /\ start' = 0
           /\ from' = next
           /\ out' = <<>>
           /\ parsed' = NoParse
           /\ UNCHANGED <<input, depth, rune>>

(* p.Reset(configs...), the caller then reading the document from a fresh  *)
(* source.                                                                 *)
DoReset ==
    \E configs \in ResetLists :
        LET p == Reset(configs)
        IN /\ configsGiven' = configs
           /\ readComments' = p.readComments
           /\ keepSeqWhitespace' = p.keepSeqWhitespace
           /\ keepTrailingWhitespace' = p.keepTrailingWhitespace
           /\ depth' = p.depth
           /\ buf' = p.buf
           /\ next' = nilParser
           /\ pos' = 0
           /\ lastOp' = "Reset"
           /\ piece' = Nil
           /\ err' = ErrNil
           /\ calls' = 0
           /\ start' = 0
           /\ from' = next
           /\ out' = <<>>
           /\ parsed' = NoParse
           /\ UNCHANGED <<input, rune>>

(* pieces, err = Parse(r, configs...) on the source not yet read, with the *)
(* options of the parser at hand; Parse works on a Parser of its own.      *)
DoParse ==
    /\ lastOp = "Reset"
    /\ \E r \in {Parse(input, [pos |-> pos, n |-> 0], sameConfigs)} :
          /\ parsed' = [pieces |-> r.pieces, err |-> r.err]
          /\ pos' = r.rd.pos
          /\ calls' = r.rd.n
          /\ start' = pos
          /\ from' = nilParser
    /\ lastOp' = "Parse"
    /\ UNCHANGED <<input, readComments, keepSeqWhitespace,
                   keepTrailingWhitespace, depth, next, buf, piece, err, out,
                   configsGiven, rune>>

Next == DoRead \/ DoReset \/ DoParse

Spec == Init /\ [][Next]_vars

---------------------------------------------------------------------------
(* ASCIIReader (reader.go) over a source of bytes: input holds bytes        *)
(* 0..255, or ERR where the underlying Read fails.                          *)
ReplacementChar == 65533

Bytes == 0..255

(* ASCIIReader.ReadByte: buf[0] and the error of the underlying Read. *)
ReadByte(in, p) ==
    IF p < Len(in)
    THEN IF in[p + 1] = ERR
         THEN [b |-> 0, err |-> ErrSource, pos |-> p + 1]
         ELSE [b |-> in[p + 1], err |-> ErrNil, pos |-> p + 1]
    ELSE [b |-> 0, err |-> EOF, pos |-> p]

(* b & 0x8 != 0 *)
bit3(b) == (b \div 8) % 2 # 0

(* ASCIIReader.ReadRune *)
ASCIIReadRune(in, p) ==
    LET x == ReadByte(in, p)
    IN IF x.err # ErrNil THEN [c |-> x.b, err |-> x.err, pos |-> x.pos]
       ELSE IF bit3(x.b)
            THEN [c |-> ReplacementChar, err |-> ErrNil, pos |-> x.pos]
       ELSE [c |-> x.b, err |-> x.err, pos |-> x.pos]

ByteInputs == {<<>>, <<ERR>>} \cup {<<b>> : b \in Bytes}

(* ASCIIReader{r} on a source of at most one byte. *)
ASCIIInit ==
    /\ input \in ByteInputs
    /\ pos = 0
    /\ readComments = FALSE
    /\ keepSeqWhitespace = FALSE
    /\ keepTrailingWhitespace = FALSE
    /\ depth = 0
    /\ buf = <<>>
    /\ next = nilParser
    /\ lastOp = "ASCIIReader"
    /\ piece = Nil
    /\ err = ErrNil
    /\ calls = 0
    /\ start = 0
    /\ from = nilParser
    /\ out = <<>>
    /\ parsed = NoParse
    /\ configsGiven = <<>>
    /\ rune = NUL

(* c, size, err = r.ReadRune(), until the source has failed or ended. *)
DoReadRune ==
    /\ err = ErrNil
    /\ \E r \in {ASCIIReadRune(input, pos)} :
           /\ rune' = r.c
           /\ err' = r.err
           /\ pos' = r.pos
    /\ start' = pos
    /\ calls' = 1
    /\ lastOp' = "ReadRune"
    /\ UNCHANGED <<input, readComments, keepSeqWhitespace,
                   keepTrailingWhitespace, depth, next, buf, piece, from, out,
                   parsed, configsGiven>>

ASCIINext == DoReadRune

ASCIISpec == ASCIIInit /\ [][ASCIINext]_vars

---------------------------------------------------------------------------
(* Vocabulary of the properties. *)
DefaultConfig == ~readComments /\ ~keepSeqWhitespace /\ ~keepTrailingWhitespace

(* The last operation was a Read that began at the start of a token. *)
ReadAtTokenStart == lastOp = "Read" /\ from.tag \in {"nil", "readKey"}

(* The items the last operation consumed. *)
consumed == SubSeq(input, start + 1, pos)

Range(s) == {s[i] : i \in 1..Len(s)}

AllBlank(s) == \A i \in 1..Len(s) : isBlank(s[i])

(* Characters that are plain in a key wherever they stand after its first. *)
PlainInKey(c) == c # ERR /\ c # BSL /\ ~keyDelim(c)

(* s is blanks, then a key of plain characters that does not begin with a  *)
(* brace, then at least one blank, then '{'.                               *)
SpacedNodeOpen(s, key) ==
    \E i \in 0..Len(s), j \in 0..Len(s) :
        /\ i < j /\ j + 1 < Len(s)
        /\ AllBlank(SubSeq(s, 1, i))
        /\ key = SubSeq(s, i + 1, j)
        /\ \A n \in 1..Len(key) : PlainInKey(key[n])
        /\ key[1] \notin {LBRACE, RBRACE}
        /\ AllBlank(SubSeq(s, j + 1, Len(s) - 1))
        /\ s[Len(s)] = LBRACE

(* s holds, after blanks, the plain characters of pre and '{' right after  *)
(* them, and no source error.                                              *)
UnspacedBrace(s, pre) ==
    /\ ERR \notin Range(s)
    /\ \E i \in 0..Len(s), j \in 0..Len(s) :
        /\ i < j /\ j < Len(s)
        /\ AllBlank(SubSeq(s, 1, i))
        /\ pre = SubSeq(s, i + 1, j + 1)
        /\ \A n \in 1..(Len(pre) - 1) : PlainInKey(pre[n]) /\ pre[n] # LBRACE
        /\ pre[1] # RBRACE
        /\ pre[Len(pre)] = LBRACE

IsPrefix(a, b) == Len(a) <= Len(b) /\ SubSeq(b, 1, Len(a)) = a

NodeEvents == <<NodeEnter(<<CHa>>), Field(<<CHb>>, <<CHc>>), NodeLeave(1)>>

(* C1 as stated: parsing  a{ LF __b c LF }  with the default configuration *)
(* yields NodeEnter("a"), Field{"b","c"}, NodeLeave(1) and no error, and a *)
(* '{' directly after a key's characters opens a node labeled by that key. *)
C1_Original ==
    /\ (lastOp = "Parse" /\ input = NodeDoc /\ DefaultConfig)
           => parsed = [pieces |-> NodeEvents, err |-> ErrNil]
    /\ \A pre \in {SubSeq(consumed, i, j) : i, j \in 1..Len(consumed)} :
           (ReadAtTokenStart /\ pre # <<>> /\ UnspacedBrace(consumed, pre))
               => piece = NodeEnter(SubSeq(pre, 1, Len(pre) - 1))

(* C1, amended: parsing  a { LF __b c LF }  (a blank between the key and   *)
(* the brace) with the default configuration yields NodeEnter("a"),        *)
(* Field{"b","c"}, NodeLeave(1) and no error; a '{' that is the first      *)
(* non-blank character after the blanks that end a key opens a node        *)
(* labeled by that key and raises depth by one, while a '{' directly after *)
(* a key's characters stays part of the key of the piece returned.         *)
C1_SpacedBraceOpensNode ==
    /\ (lastOp = "Parse" /\ input = SpacedNodeDoc /\ DefaultConfig)
           => parsed = [pieces |-> NodeEvents, err |-> ErrNil]
    /\ \A key \in {SubSeq(consumed, i, j) : i, j \in 1..Len(consumed)} :
           (ReadAtTokenStart /\ key # <<>>)
               => /\ SpacedNodeOpen(consumed, key)
                      => piece = NodeEnter(key) /\ err = ErrNil /\ depth >= 1
                  /\ UnspacedBrace(consumed, key)
                      => piece.kind \in {"Field", "NodeEnter"}
                         /\ IsPrefix(key, piece.key)

C1_Witness ==
    /\ lastOp = "Parse" /\ input = SpacedNodeDoc /\ DefaultConfig
    /\ parsed.pieces = NodeEvents

(* The '{' and '}' of s are properly nested. *)
RECURSIVE BalancedFrom(_, _, _)
BalancedFrom(s, i, open) ==
    IF i > Len(s) THEN open = 0
    ELSE IF s[i] = LBRACE THEN BalancedFrom(s, i + 1, open + 1)
    ELSE IF s[i] = RBRACE THEN open > 0 /\ BalancedFrom(s, i + 1, open - 1)
    ELSE BalancedFrom(s, i + 1, open)

Balanced(s) == BalancedFrom(s, 1, 0)

(* s is a sequence of whole lines, each one of Lines. *)
RECURSIVE IsLineDoc(_)
IsLineDoc(s) ==
    \/ s = <<>>
    \/ \E l \in Lines :
           IsPrefix(l, s) /\ IsLineDoc(SubSeq(s, Len(l) + 1, Len(s)))

(* C2 as stated: for every input whose '{' and '}' are balanced, read      *)
(* without a source error, no Read returns ErrUnexpectedNodeLeave and the  *)
(* depth is 0 once Read reports end-of-stream.                             *)
C2_Original ==
    (lastOp = "Read" /\ ERR \notin Range(input) /\ Balanced(input))
        => err # ErrUnexpectedNodeLeave /\ (err = EOF => depth = 0)

(* C2, amended: for every input made of newline-terminated lines of the    *)
(* forms  {   }   key {   key value   key!  (so that every brace is read   *)
(* as a token of its own) whose braces are balanced, no Read returns       *)
(* ErrUnexpectedNodeLeave and the depth is 0 once Read reports             *)
(* end-of-stream.                                                          *)
C2_BalancedLinesEndAtDepthZero ==
    (lastOp = "Read" /\ IsLineDoc(input) /\ Balanced(input))
        => err # ErrUnexpectedNodeLeave /\ (err = EOF => depth = 0)

C2_Witness ==
    /\ lastOp = "Read" /\ input = NestedDoc /\ err = EOF /\ depth = 0
    /\ Len(out) = 4

(* The events the step operation produces from rd on, up to and including  *)
(* the step that returns an error or end-of-stream.                        *)
RECURSIVE readEvents(_, _, _, _)
readEvents(in, p, nxt, rd) ==
    LET r == Read(in, p, nxt, rd)
        ev == IF r.piece = Nil THEN <<>> ELSE <<r.piece>>
    IN IF r.err # ErrNil THEN ev
       ELSE ev \o readEvents(in, [p EXCEPT !.depth = r.depth, !.buf = r.buf],
                             r.next, r.rd)

(* C3 as stated: Parse returns, in order, every event the step operation   *)
(* produces up to end-of-stream, the event of the step that reaches        *)
(* end-of-stream included, and end-of-stream as a nil error.  (Stated for  *)
(* sources without errors and documents without comments.)                 *)
C3_Original ==
    (lastOp = "Parse" /\ ERR \notin Range(input) /\ HASH \notin Range(input))
        => /\ parsed.err = ErrNil
           /\ parsed.pieces =
                  readEvents(input, Reset(sameConfigs), nilParser,
                             [pos |-> start, n |-> 0])

(* s is  k, a blank, plain letters, a backslash and a newline at i and     *)
(* i + 1, and plain letters to the end of s.                               *)
ValueLetter(c) == c \in {CHa, CHt, CHv, CHw}

IsContinuedValue(s, i) ==
    /\ 3 < i /\ i + 1 < Len(s)
    /\ s[1] = CHk /\ s[2] = SP /\ s[i] = BSL /\ s[i + 1] = LF
    /\ \A n \in 3..(i - 1) : ValueLetter(s[n])
    /\ \A n \in (i + 2)..Len(s) : ValueLetter(s[n])

(* C4 as stated: a backslash-newline inside a value adds no newline to the *)
(* value; with CompressWhitespace on,  k v\ LF __w  yields the single      *)
(* event Field{"k","v w"}.                                                 *)
C4_Original ==
    /\ (lastOp = "Read" /\ start = 0 /\ input = ContinuedDoc
            /\ ~keepSeqWhitespace)
           => piece = Field(<<CHk>>, <<CHv, SP, CHw>>)
    /\ \A i \in 1..Len(consumed) :
           (ReadAtTokenStart /\ start = 0 /\ pos = Len(input)
                /\ IsContinuedValue(consumed, i))
               => LF \notin Range(piece.value)

(* C4, amended: a backslash-newline inside a value continues the value on  *)
(* the next line and the newline itself is kept in the value: the first    *)
(* Read of  k v\ LF __w  returns Field{"k","v" LF "w"} with                *)
(* CompressWhitespace on (the blanks that begin the continued line are     *)
(* dropped) and Field{"k","v" LF "  w"} with it off; in general            *)
(* k <letters> \ LF <letters>  yields the letters with LF between them.    *)
C4_ContinuationKeepsNewline ==
    /\ (lastOp = "Read" /\ start = 0 /\ input = ContinuedDoc)
           => piece = Field(<<CHk>>,
                            IF keepSeqWhitespace
                            THEN <<CHv, LF, SP, SP, CHw>>
                            ELSE <<CHv, LF, CHw>>)
    /\ \A i \in 1..Len(consumed) :
           (ReadAtTokenStart /\ start = 0 /\ pos = Len(input)
                /\ IsContinuedValue(consumed, i))
               => piece = Field(<<CHk>>,
                                SubSeq(consumed, 3, i - 1) \o <<LF>>
                                    \o SubSeq(consumed, i + 2, Len(consumed)))

C4_Witness ==
    /\ lastOp = "Read" /\ start = 0 /\ input = ContinuedDoc
    /\ ~keepSeqWhitespace
    /\ piece = Field(<<CHk>>, <<CHv, LF, CHw>>)

(* C5 as stated: a Read during which the source returns an error other     *)
(* than end-of-stream returns that error with no event and leaves the      *)
(* parser in the Error state, where every later Read returns the same      *)
(* error without reading the source.                                       *)
C5_Original ==
    /\ (lastOp = "Read" /\ ERR \in Range(consumed))
           => piece = Nil /\ err = ErrSource /\ next = errReader(ErrSource)
    /\ (lastOp = "Read" /\ from = errReader(ErrSource))
           => piece = Nil /\ err = ErrSource /\ calls = 0 /\ next = from

(* The first item not yet consumed that is no blank is '}'. *)
ClosingBraceAhead ==
    \E i \in (pos + 1)..Len(input) :
        input[i] = RBRACE /\ \A j \in (pos + 1)..(i - 1) : isBlank(input[j])

Poisoned == next = errReader(ErrUnexpectedNodeLeave)

(* C6: a Read that meets '}' at the start of a token while depth is 0      *)
(* returns no event and ErrUnexpectedNodeLeave and leaves depth at 0; from *)
(* then on every Read returns ErrUnexpectedNodeLeave and no event, and     *)
(* consumes nothing from the source.                                       *)
C6_UnexpectedLeavePoisons ==
    [][lastOp' = "Read" =>
          /\ (next.tag \in {"nil", "readKey"} /\ depth = 0 /\ ClosingBraceAhead)
                 => /\ piece' = Nil /\ err' = ErrUnexpectedNodeLeave
                    /\ depth' = 0 /\ Poisoned'
          /\ Poisoned
                 => /\ piece' = Nil /\ err' = ErrUnexpectedNodeLeave
                    /\ pos' = pos /\ calls' = 0 /\ depth' = depth
                    /\ Poisoned']_vars

C6_Witness ==
    /\ lastOp = "Read" /\ from = errReader(ErrUnexpectedNodeLeave)
    /\ err = ErrUnexpectedNodeLeave /\ piece = Nil /\ calls = 0 /\ depth = 0
    /\ input[pos] = RBRACE

CountKind(s, kind) == Cardinality({i \in 1..Len(s) : s[i].kind = kind})

(* C7: depth is never negative and equals the NodeEnter events emitted     *)
(* less the NodeLeave events emitted; a step changes depth only by +1      *)
(* while emitting a NodeEnter or by -1 while emitting a NodeLeave, and a   *)
(* NodeLeave carries the depth before the decrement, which is at least 1.  *)
C7_DepthCountsOpenNodes ==
    /\ [](depth >= 0
          /\ depth = CountKind(out, "NodeEnter") - CountKind(out, "NodeLeave"))
    /\ [][lastOp' = "Read" =>
             /\ depth' \in {depth - 1, depth, depth + 1}
             /\ (depth' = depth + 1) <=> (piece'.kind = "NodeEnter")
             /\ (depth' = depth - 1) <=> (piece'.kind = "NodeLeave")
             /\ piece'.kind = "NodeLeave"
                    => piece'.depth = depth /\ piece'.depth >= 1]_vars

C7_Witness ==
    /\ lastOp = "Read" /\ input = NestedDoc /\ piece = NodeLeave(2)
    /\ depth = 1 /\ Len(out) = 3

(* C8 as stated, its second half: no Read returns with neither a piece nor *)
(* an error, a skipped comment included.                                   *)
C8_Original == lastOp = "Read" => (piece # Nil \/ err # ErrNil)

(* The comments of a text, read off its characters alone: outside a        *)
(* comment a backslash escapes the next character (a CR in between is      *)
(* passed over) and an unescaped '#' begins a comment, which runs up to    *)
(* the next LF or the end of the text.  The last entry is the comment the  *)
(* text ends in, if it ends in one.                                        *)
RECURSIVE scanComments(_, _, _, _, _, _)
scanComments(s, i, inComment, escape, cur, acc) ==
    IF i > Len(s) THEN IF inComment THEN Append(acc, cur) ELSE acc
    ELSE IF inComment
         THEN IF s[i] = LF
              THEN scanComments(s, i + 1, FALSE, FALSE, <<>>, Append(acc, cur))
              ELSE scanComments(s, i + 1, TRUE, FALSE, Append(cur, s[i]), acc)
    ELSE IF escape
         THEN scanComments(s, i + 1, FALSE, s[i] = CR, <<>>, acc)
    ELSE IF s[i] = BSL THEN scanComments(s, i + 1, FALSE, TRUE, <<>>, acc)
    ELSE IF s[i] = HASH THEN scanComments(s, i + 1, TRUE, FALSE, <<>>, acc)
    ELSE scanComments(s, i + 1, FALSE, FALSE, <<>>, acc)

commentTexts(s) == scanComments(s, 1, FALSE, FALSE, <<>>, <<>>)

IsCommentPiece(x) == x.kind = "Comment"

(* The texts of the Comment pieces returned so far. *)
commentsOut ==
    LET cs == SelectSeq(out, IsCommentPiece)
    IN [i \in 1..Len(cs) |-> cs[i].value]

(* The comments of the text consumed so far whose text has been read: a    *)
(* comment whose '#' alone has been consumed is still to come.             *)
commentsRead ==
    LET all == commentTexts(SubSeq(input, 1, pos))
    IN IF next.tag = "readComment" THEN SubSeq(all, 1, Len(all) - 1) ELSE all

(* C9: with ReadComments off no Read returns a Comment; with it on, the    *)
(* Comment pieces returned are, one for one and in order, the comments of  *)
(* the text consumed (at the start of a token, directly after a key or     *)
(* after a value), each with the characters after its '#' up to but not    *)
(* including the LF, and a comment that follows a field on its line is     *)
(* returned by the Read after the one that returned the Field.             *)
C9_CommentsSurfaceVerbatim ==
    (lastOp = "Read" /\ parsed = NoParse)
        => /\ ~readComments
                  => piece.kind # "Comment" /\ CountKind(out, "Comment") = 0
           /\ (readComments /\ ERR \notin Range(SubSeq(input, 1, pos)))
                  => commentsOut = commentsRead
           /\ (piece.kind = "Comment" /\ from.tag = "readComment")
                  => Len(out) >= 2 /\ out[Len(out) - 1].kind = "Field"

C9_Witness ==
    /\ lastOp = "Read" /\ parsed = NoParse /\ readComments
    /\ input = ValueCommentDoc /\ from.tag = "readComment"
    /\ piece = Comment(<<CHc>>)
    /\ out = <<Field(<<CHk>>, <<CHv>>), Comment(<<CHc>>)>>

NoAdjacentBlanks(v) ==
    \A i \in 1..(Len(v) - 1) : ~(v[i] \in {SP, TAB} /\ v[i + 1] \in {SP, TAB})

NoAdjacentSpace(v) ==
    \A i \in 1..(Len(v) - 1) : ~(IsSpace(v[i]) /\ IsSpace(v[i + 1]))

(* s is  k, one blank, and a value text v of letters, spaces and tabs that *)
(* begins with a letter, ended by LF or by the end of the source.          *)
IsPlainField(s, v) ==
    /\ Len(v) >= 1 /\ ValueLetter(v[1])
    /\ \A n \in 1..Len(v) : ValueLetter(v[n]) \/ v[n] \in {SP, TAB}
    /\ \/ s = <<CHk, SP>> \o v \o <<LF>>
       \/ s = <<CHk, SP>> \o v /\ pos = Len(input)

(* C10 as stated: with CompressWhitespace on no emitted value holds two    *)
(* adjacent space/tab characters, whitespace decoded from escapes          *)
(* included.                                                               *)
C10_Original ==
    (lastOp = "Read" /\ piece.kind = "Field" /\ ~keepSeqWhitespace)
        => NoAdjacentBlanks(piece.value)

(* C10, amended: with CompressWhitespace on, a whitespace character read   *)
(* unescaped is dropped when the character written before it is            *)
(* whitespace, so a value read without any escape holds no two adjacent    *)
(* whitespace characters; whitespace decoded from an escape is always      *)
(* written (k a \  a  yields "a", two spaces, "a").  With it off a run of  *)
(* spaces and tabs is kept as read.                                        *)
C10_UnescapedRunsCollapse ==
    /\ (lastOp = "Read" /\ piece.kind = "Field" /\ ~keepSeqWhitespace
            /\ BSL \notin Range(consumed))
           => NoAdjacentSpace(piece.value)
    /\ (lastOp = "Read" /\ start = 0 /\ input = EscapedBlankDoc)
           => piece = Field(<<CHk>>,
                            IF keepSeqWhitespace
                            THEN <<CHa, SP, SP, SP, CHa>>
                            ELSE <<CHa, SP, SP, CHa>>)
    /\ (lastOp = "Read" /\ start = 0 /\ input = BlankRunDoc)
           => piece = Field(<<CHk>>,
                            IF keepSeqWhitespace
                            THEN <<CHa, SP, TAB, SP, CHa>>
                            ELSE <<CHa, SP, CHa>>)
    /\ \A v \in {SubSeq(consumed, 3, j) : j \in 3..Len(consumed)} :
           (ReadAtTokenStart /\ start = 0 /\ keepSeqWhitespace
                /\ keepTrailingWhitespace /\ IsPlainField(consumed, v))
               => piece = Field(<<CHk>>, v)

C10_Witness ==
    /\ lastOp = "Read" /\ start = 0 /\ input = BlankRunDoc
    /\ ~keepSeqWhitespace
    /\ piece = Field(<<CHk>>, <<CHa, SP, CHa>>)

(* The state of Read's loop before the last read function it calls. *)
RECURSIVE lastRead(_, _, _)
lastRead(in, p, r) ==
    LET r2 == read(in, [p EXCEPT !.depth = r.depth, !.buf = r.buf], r.next, r.rd)
    IN IF r2.next.tag # "nil" /\ r2.piece = Nil /\ r2.err = ErrNil
       THEN lastRead(in, p, r2)
       ELSE r

(* What the buffer holds when readValue's loop ends, for a readKey that     *)
(* begins at rd; empty where the Field is emitted without that loop.        *)
accumulatedAt(in, keep, rd) ==
    LET x == skipBlank(in, rd)
        st == keyLoop(in, keep, [c |-> x.c, err |-> x.err, rd |-> x.rd,
                                 escape |-> FALSE, last |-> NUL, buf |-> <<>>])
        y == skipBlank(in, st.rd)
        vs == valueLoop(in, keep, [c |-> y.c, err |-> y.err, rd |-> y.rd,
                                   escape |-> FALSE, last |-> NUL, buf |-> <<>>])
    IN IF st.err # EOF /\ st.c \notin {HASH, BANG, SEMI} /\ y.c # HASH
       THEN vs.buf
       ELSE <<>>

(* The accumulated value behind the Field the last Read returned. *)
accumulated ==
    LET r0 == result(IF from.tag = "nil" THEN readKeyFn ELSE from, Nil, ErrNil,
                     [pos |-> start, n |-> 0], depth, <<>>)
        r == lastRead(input, parser, r0)
    IN IF r.next.tag = "readKey"
       THEN accumulatedAt(input, keepSeqWhitespace, r.rd)
       ELSE <<>>

TrimSet == {SP, TAB, CR, LF}

(* C11: with TrimWhitespace on, the value of every Field emitted is the     *)
(* accumulated value less its maximal trailing run of space, tab, CR and   *)
(* LF, so it never ends in one of them; with it off the accumulated value   *)
(* is emitted unchanged.                                                    *)
C11_TrimRemovesTrailingRun ==
    (lastOp = "Read" /\ piece.kind = "Field")
        => LET acc == accumulated
               v == piece.value
           IN IF keepTrailingWhitespace
              THEN v = acc
              ELSE /\ IsPrefix(v, acc)
                   /\ \A i \in (Len(v) + 1)..Len(acc) : acc[i] \in TrimSet
                   /\ v # <<>> => v[Len(v)] \notin TrimSet

C11_Witness ==
    /\ lastOp = "Read" /\ piece.kind = "Field" /\ ~keepTrailingWhitespace
    /\ piece.value = <<CHa>> /\ accumulated = <<CHa, SP, LF>>

(* C12 as stated: for every non-empty key k over the characters the key     *)
(* table escapes and every value v over the characters the value table     *)
(* escapes, Parse of the text Field{k,v}.String(), under any               *)
(* configuration, returns exactly one piece, Field{k,v}.                    *)
C12_Original ==
    lastOp = "Parse"
        => \A rt \in RoundTrips :
               input = rt.text => parsed.pieces = <<Field(rt.key, rt.value)>>

options == <<readComments, keepSeqWhitespace, keepTrailingWhitespace>>

(* C13: a parser constructed or reset with no options has readComments     *)
(* off, compressWhitespace on and trimTrailingWhitespace on, and reads      *)
(* accordingly (no Comment pieces, runs of unescaped whitespace collapsed,  *)
(* no trailing whitespace in a value); the three options change only in a   *)
(* Reset, never in a Read or in Parse.                                      *)
C13_DefaultsAndFrame ==
    /\ [](/\ configsGiven = <<>> => options = <<FALSE, FALSE, FALSE>>
          /\ (lastOp = "Read" /\ configsGiven = <<>>)
                 => /\ piece.kind # "Comment"
                    /\ piece.kind = "Field"
                           => /\ piece.value # <<>>
                                  => piece.value[Len(piece.value)] \notin TrimSet
                              /\ BSL \notin Range(consumed)
                                  => NoAdjacentSpace(piece.value)
                    /\ (start = 0 /\ input = BlankRunDoc)
                           => piece = Field(<<CHk>>, <<CHa, SP, CHa>>))
    /\ [][/\ lastOp' \in {"Read", "Parse"} => options' = options
          /\ options' # options => lastOp' = "Reset"]_vars

C13_Witness ==
    /\ lastOp = "Read" /\ configsGiven = <<>>
    /\ input = ValueCommentDoc
    /\ out = <<Field(<<CHk>>, <<CHv>>), Field(<<CHa>>, <<>>)>>

(* The value the list cfgs gives the option name: that of its last entry    *)
(* for it, else the default.                                                *)
RECURSIVE optVal(_, _, _)
optVal(cfgs, name, default) ==
    IF cfgs = <<>> THEN default
    ELSE IF cfgs[Len(cfgs)].opt = name THEN cfgs[Len(cfgs)].val
    ELSE optVal(SubSeq(cfgs, 1, Len(cfgs) - 1), name, default)

(* A newly constructed parser with the options cfgs sets, the others at     *)
(* their defaults.                                                          *)
newParser(cfgs) ==
    [readComments |-> optVal(cfgs, "ReadComments", FALSE),
     keepSeqWhitespace |-> ~optVal(cfgs, "CompressWhitespace", TRUE),
     keepTrailingWhitespace |-> ~optVal(cfgs, "TrimWhitespace", TRUE),
     depth |-> 0, buf |-> <<>>]

(* C14: Reset, in whatever state it is called (at depth > 0, after          *)
(* end-of-stream, after the parser was poisoned), leaves depth 0, an empty  *)
(* buffer, readKey as the next step (next is nil, which Read takes as       *)
(* readKey) and every option not passed at its default; the Read that       *)
(* follows on a fresh source returns what a newly constructed parser's      *)
(* Read returns and leaves the parser in the same state.                    *)
C14_ResetRestoresInitialState ==
    [][/\ (lastOp' = "Reset") =>
             (/\ depth' = 0 /\ buf' = <<>> /\ next' = nilParser /\ pos' = 0
              /\ parser' = newParser(configsGiven'))
       /\ (lastOp = "Reset" /\ lastOp' = "Read") =>
             LET r == Read(input, newParser(configsGiven), readKeyFn,
                           [pos |-> 0, n |-> 0])
             IN /\ piece' = r.piece /\ err' = r.err /\ next' = r.next
                /\ depth' = r.depth /\ buf' = r.buf
                /\ pos' = r.rd.pos]_vars

(* A Reset of a poisoned parser that had consumed part of the source. *)
C14_Witness ==
    /\ lastOp = "Reset" /\ from = errReader(ErrUnexpectedNodeLeave)
    /\ input = <<LBRACE, RBRACE, RBRACE>>
    /\ depth = 0 /\ next = nilParser /\ pos = 0
    /\ configsGiven = <<>> /\ options = <<FALSE, FALSE, FALSE>>

(* C15 as stated: once a Read has reported end-of-stream, whether the text  *)
(* ended in whitespace, in a key, in a value or in a comment, every later   *)
(* Read returns no piece and end-of-stream without calling the source and   *)
(* without changing depth.                                                  *)
C15_Original ==
    [][(lastOp = "Read" /\ err = EOF /\ lastOp' = "Read")
           => /\ piece' = Nil /\ err' = EOF
              /\ calls' = 0 /\ depth' = depth]_vars

(* What the escape table of the format gives for the character after a      *)
(* backslash.                                                               *)
escapeOf(c) ==
    IF c = CHt THEN TAB ELSE IF c = CHn THEN LF ELSE IF c = CHr THEN CR
    ELSE IF c = CHb THEN BS ELSE IF c = CHf THEN FF ELSE IF c = CH0 THEN NUL
    ELSE IF c = CHv THEN VT ELSE c

ReadErrors == {ErrNil, EOF, ErrUnexpectedNodeLeave}

(* C16 as stated: in a key or a value a backslash followed by t, n, r, b,   *)
(* f, 0 or v decodes to tab, LF, CR, backspace, form-feed, NUL or vertical  *)
(* tab, and a backslash followed by any other character yields that         *)
(* character (an escaped delimiter does not end the token); on a source     *)
(* that never errors Read returns no error but ErrUnexpectedNodeLeave       *)
(* (and end-of-stream).                                                     *)
C16_Original ==
    (lastOp = "Read" /\ start = 0)
        => /\ \A c \in EscapeChars :
                  /\ input = KeyEscapeDoc(c)
                         => piece = Field(<<CHa, escapeOf(c), CHt, CHa>>, <<>>)
                  /\ input = ValueEscapeDoc(c)
                         => piece = Field(<<CHk>>, <<CHa, escapeOf(c), CHt, CHa>>)
           /\ ERR \notin Range(input) => err \in ReadErrors

(* C16, amended: as stated for every character after the backslash but a    *)
(* raw carriage return; a raw CR is dropped wherever it stands and leaves   *)
(* the escape pending, so the escape applies to the character after the CR  *)
(* (backslash, CR, t  decodes to a tab).  On a source that never errors     *)
(* every Read returns nil, end-of-stream or ErrUnexpectedNodeLeave.         *)
C16_EscapesDecode ==
    /\ (lastOp = "Read" /\ start = 0)
           => \A c \in EscapeChars :
                  LET dec == IF c = CR THEN <<escapeOf(CHt), CHa>>
                             ELSE <<escapeOf(c), CHt, CHa>>
                  IN /\ input = KeyEscapeDoc(c)
                            => piece = Field(<<CHa>> \o dec, <<>>)
                                   /\ err = ErrNil
                     /\ input = ValueEscapeDoc(c)
                            => piece = Field(<<CHk>>, <<CHa>> \o dec)
                                   /\ err = ErrNil
    /\ (lastOp = "Read" /\ ERR \notin Range(input)) => err \in ReadErrors

C16_Witness ==
    /\ lastOp = "Read" /\ start = 0 /\ input = ValueEscapeDoc(CHv)
    /\ piece = Field(<<CHk>>, <<CHa, VT, CHt, CHa>>) /\ err = ErrNil

(* C17 as stated: for every byte b in 0..255 read without error,            *)
(* ASCIIReader.ReadRune returns U+FFFD exactly when the high bit 0x80 of b  *)
(* is set and otherwise returns b as the code point, so every 7-bit ASCII   *)
(* byte (newline, tab, '{', '}' and ';' among them) is delivered unchanged. *)
C17_Original ==
    (lastOp = "ReadRune" /\ err = ErrNil)
        => LET b == input[pos]
           IN /\ rune = ReplacementChar <=> b >= 128
              /\ b < 128 => rune = b
              /\ b \in {LF, TAB, LBRACE, RBRACE, SEMI} => rune = b

(* C18 as stated: every Field that Read emits has a non-empty key; a '!' or *)
(* ';' not preceded by key characters produces no Field.                    *)
C18_Original ==
    (lastOp = "Read" /\ piece.kind = "Field") => piece.key # <<>>

(* The Read steps Parse makes, the one that returns an error included. *)
RECURSIVE parseSteps(_, _, _, _)
parseSteps(in, p, nxt, rd) ==
    LET r == Read(in, p, nxt, rd)
    IN IF r.err # ErrNil THEN 1
       ELSE 1 + parseSteps(in, [p EXCEPT !.depth = r.depth, !.buf = r.buf],
                           r.next, r.rd)

(* The Read steps of the Parse that has just returned. *)
stepsOfParse ==
    parseSteps(input, Reset(sameConfigs), nilParser, [pos |-> start, n |-> 0])

(* C19: every Read that returns without an error has consumed at least one *)
(* code point of the source, and made at least one call on it; so on a      *)
(* finite input whose source reports end-of-stream after the last code      *)
(* point Parse returns after at most Len(input) + 1 Read steps, with at     *)
(* most Len(input) pieces.                                                  *)
C19_ReadsConsume ==
    /\ (lastOp = "Read" /\ err = ErrNil) => (pos >= start + 1 /\ calls >= 1)
    /\ (lastOp = "Parse" /\ ERR \notin Range(input))
           => /\ stepsOfParse <= Len(input) + 1
              /\ Len(parsed.pieces) <= Len(input)
              /\ pos = Len(input) \/ parsed.err # ErrNil

(* Three tokens of one character each: Len(input) + 1 Read steps. *)
C19_Witness ==
    /\ lastOp = "Parse" /\ input = <<SEMI, SEMI, SEMI>>
    /\ stepsOfParse = 4 /\ Len(parsed.pieces) = 3

(* The parser's present options, with ReadComments(true). *)
withComments ==
    <<[opt |-> "ReadComments", val |-> TRUE],
      [opt |-> "TrimWhitespace", val |-> ~keepTrailingWhitespace],
      [opt |-> "CompressWhitespace", val |-> ~keepSeqWhitespace]>>

NotCommentPiece(x) == x.kind # "Comment"

(* C20 as stated: for every input and every setting of the other two        *)
(* options, the pieces Parse returns with ReadComments(false) are, element  *)
(* by element, those it returns with ReadComments(true) less the Comment    *)
(* pieces, and the two calls return the same error.                         *)
C20_Original ==
    (lastOp = "Parse" /\ ~readComments)
        => LET on == Parse(input, [pos |-> start, n |-> 0], withComments)
           IN /\ parsed.pieces = SelectSeq(on.pieces, NotCommentPiece)
              /\ parsed.err = on.err

====
